---- MODULE Spec2Model ----
(***************************************************************************)
(* Model of the training control loop of train.py (function main):         *)
(* warm start, the epoch / step iteration, the sub-epoch validation every  *)
(* 4th step, the epoch-end validation, checkpoint saving and early         *)
(* stopping.  One action per statement group of main, ordered by pc.       *)
(*                                                                         *)
(* Losses are floats in the program.  Here a finite loss is a natural      *)
(* number counting units of 10^-7; NaN and +infinity are two sentinels and *)
(* the comparisons FLess / FGeq follow IEEE-754 as Python's < and >= do.   *)
(***************************************************************************)
EXTENDS Integers, Sequences, FiniteSets, TLC

\* ---------------------------------------------------------------- bounds
MaxEpochs == 3
MaxPatience == 2
MaxRuns == 2
MaxScore == 1
MaxSamples == 2

\* output.view(10, 1): the length of a score vector
NumRanks == 10

\* (len(trainset), train_batch_size) and (len(valset), val_batch_size)
TrainSets == {<<3, 2>>, <<8, 1>>}
ValSets == {<<1, 2>>, <<2, 2>>}

\* epochs k for which a file epoch-k.pth may already be in the directory
PriorEpochs == {1}

\* ranks at which the score vectors of the test samples may be non-zero
SupportRanks == {1, 5, NumRanks}

\* ---------------------------------------------------------------- state
VARIABLES
    pc,                 \* position in main
    epochs, early_stopping_patience, warm_start, warm_start_epoch,  \* config
    trainset, valset,   \* <<len(dataset), batch size>>
    dirExists, files,   \* the checkpoint directory: name -> saved state_dict
    model,              \* model parameters (version number)
    grad,               \* what the parameter gradients hold
    epoch, i,           \* loop variables
    count, init_val_loss,
    batch_val_losses, avg_val_loss,
    stopped,            \* how the run ended, "none" while it runs
    lastLogged,         \* step index of the last writer.add_scalar
    endLosses,          \* history: epoch-end avg_val_loss of each epoch run
    streak,             \* history: consecutive epoch-end checks without improvement
    lastSubVal,         \* history: last 1-indexed step of this epoch followed by a validation
    saves,              \* history: labels the training loop has saved
    minSeen,            \* history: least validation loss (NaN aside) compared so far
    run,                \* number of the current run on this directory
    testset,            \* test mode: the model's output for each sample of test_loader
    tpos,               \* test mode: number of samples fetched
    output, predicted_mean, predicted_std,
    mean_preds, std_preds

vars == <<pc, epochs, early_stopping_patience, warm_start, warm_start_epoch,
          trainset, valset, dirExists, files, model, grad, epoch, i, count,
          init_val_loss, batch_val_losses, avg_val_loss, stopped, lastLogged,
          endLosses, streak, lastSubVal, saves, minSeen, run,
          testset, tpos, output, predicted_mean, predicted_std, mean_preds, std_preds>>

config == <<epochs, early_stopping_patience, warm_start, warm_start_epoch,
            trainset, valset>>
history == <<endLosses, streak, lastSubVal, saves, minSeen>>
testvars == <<testset, tpos, output, predicted_mean, predicted_std, mean_preds, std_preds>>

\* ---------------------------------------------------------------- floats
NaN == 0 - 1
Inf == 0 - 2

\* per-batch criterion values a validation batch may produce
BatchLosses == {NaN, 5000000, 5000004, 6000000}

\* a <= b on Python floats
FLessOrEqual(a, b) ==
    IF a = NaN \/ b = NaN THEN FALSE
    ELSE IF b = Inf THEN TRUE
    ELSE IF a = Inf THEN FALSE
    ELSE a <= b

\* a < b on Python floats
FLess(a, b) ==
    IF a = NaN \/ b = NaN THEN FALSE
    ELSE IF a = Inf THEN FALSE
    ELSE IF b = Inf THEN TRUE
    ELSE a < b

\* a >= b on Python floats
FGeq(a, b) ==
    IF a = NaN \/ b = NaN THEN FALSE
    ELSE IF a = Inf THEN TRUE
    ELSE IF b = Inf THEN FALSE
    ELSE a >= b

\* the lesser of the least loss seen so far and a new loss; NaN is no loss
FMin(least, x) ==
    IF x = NaN THEN least
    ELSE IF least = Inf THEN x
    ELSE IF x < least THEN x ELSE least

RECURSIVE FSum(_)
\* sum(batch_val_losses): NaN is absorbing
FSum(s) ==
    IF s = <<>> THEN 0
    ELSE LET r == FSum(Tail(s))
         IN  IF Head(s) = NaN \/ r = NaN THEN NaN ELSE Head(s) + r

\* x / d for an integer d >= 1, truncated to the loss unit
FDiv(x, d) == IF x = NaN THEN NaN ELSE x \div d

\* '%f' % x: six decimals, i.e. the loss rounded to tens of the loss unit
FormatLoss(x) == IF x = NaN THEN NaN ELSE (x + 5) \div 10

\* ---------------------------------------------------------------- file names
\* 'epoch-%d.pth' % k
WarmStartName(k) == <<"epoch", k>>

\* 'epoch-%d-%f.pth' % (label, loss)
CkptName(label, loss) == <<"epoch", label, FormatLoss(loss)>>

\* the label a sub-epoch checkpoint would carry if it were the true epoch number
SubEpochLabelTrueEpoch(ii) == epoch + 1

\* label printed and saved by the sub-epoch validation after step index ii
SubEpochLabel(ii) == (ii + 1) \div 6

\* label saved by the epoch-end validation of epoch index e
EpochLabel(e) == e + 1

\* the period test applied to the 0-based index instead of the 1-based position
IsCheckStepZeroBased(ii) == ii % 4 = 0

\* a step index after which the sub-epoch validation runs
IsCheckStep(ii) == (ii + 1) % 4 = 0

\* if not os.path.exists(ckpt_path): os.makedirs(ckpt_path) -- whether the
\* directory exists afterwards, given whether it existed before
MakeDirs(d) == d \/ ~d

\* len(train_loader), len(val_loader): ceil(M / B)
NumBatches(ds) == (ds[1] + ds[2] - 1) \div ds[2]

\* the number of batches as the divisor of the mean
DenominatorBatchCount(ds) == NumBatches(ds)

\* the divisor without the + 1
DenominatorFloor(ds) == ds[1] \div ds[2]

\* len(dataset) // batch_size + 1
Denominator(ds) == ds[1] \div ds[2] + 1

\* torch.save(model.state_dict(), name) into an existing directory
SaveFile(fs, name, state) ==
    [n \in DOMAIN fs \cup {name} |-> IF n = name THEN state ELSE fs[n]]

NoFiles == [n \in {} |-> 0]

Init ==
    /\ pc = "start"
    /\ epochs \in 1..MaxEpochs
    /\ early_stopping_patience \in 0..MaxPatience
    /\ warm_start \in BOOLEAN
    /\ warm_start_epoch \in 0..MaxEpochs
    /\ trainset \in TrainSets
    /\ valset \in ValSets
    /\ dirExists \in BOOLEAN
    /\ files \in {NoFiles} \cup
                 {[n \in {WarmStartName(k)} |-> 0 - 1] : k \in IF dirExists THEN PriorEpochs ELSE {}}
    /\ model = 0
    /\ grad = <<"none">>
    /\ epoch = 0
    /\ i = 0 - 1
    /\ count = 0
    /\ init_val_loss = Inf
    /\ batch_val_losses = <<>>
    /\ avg_val_loss = Inf
    /\ stopped = "none"
    /\ lastLogged = 0 - 1
    /\ endLosses = <<>>
    /\ streak = 0
    /\ lastSubVal = 0
    /\ saves = {}
    /\ minSeen = Inf
    /\ run = 1
    /\ testset = <<>>
    /\ tpos = 0
    /\ output = <<>>
    /\ predicted_mean = 0
    /\ predicted_std = 0
    /\ mean_preds = <<>>
    /\ std_preds = <<>>

\* a warm start that tolerates a missing file and goes on with the fresh model
LoadCheckpointIgnoreMissing ==
    /\ pc = "start"
    /\ pc' = "epoch_head"
    /\ model' = IF warm_start /\ WarmStartName(warm_start_epoch) \in DOMAIN files
                THEN files[WarmStartName(warm_start_epoch)] ELSE model
    /\ epoch' = warm_start_epoch
    /\ UNCHANGED <<config, dirExists, files, grad, i, count, init_val_loss,
                   batch_val_losses, avg_val_loss, stopped, lastLogged, history, run, testvars>>

\* a loop that starts at warm_start_epoch only when warm_start is set
LoadCheckpointStartsAtZero ==
    /\ pc = "start"
    /\ IF warm_start /\ WarmStartName(warm_start_epoch) \notin DOMAIN files
       THEN /\ pc' = "aborted"
            /\ stopped' = "CheckpointNotFound"
            /\ UNCHANGED <<model, epoch>>
       ELSE /\ pc' = "epoch_head"
            /\ model' = IF warm_start THEN files[WarmStartName(warm_start_epoch)] ELSE model
            /\ epoch' = IF warm_start THEN warm_start_epoch ELSE 0
            /\ UNCHANGED stopped
    /\ UNCHANGED <<config, dirExists, files, grad, i, count, init_val_loss,
                   batch_val_losses, avg_val_loss, lastLogged, history, run, testvars>>

\* lines 33-37 and 62-63: build the model, warm start, initialise early stopping
LoadCheckpoint ==
    /\ pc = "start"
    /\ IF warm_start /\ WarmStartName(warm_start_epoch) \notin DOMAIN files
       THEN /\ pc' = "aborted"
            /\ stopped' = "CheckpointNotFound"
            /\ UNCHANGED <<model, epoch>>
       ELSE /\ pc' = "epoch_head"
            /\ model' = IF warm_start THEN files[WarmStartName(warm_start_epoch)] ELSE model
            /\ epoch' = warm_start_epoch
            /\ UNCHANGED stopped
    /\ UNCHANGED <<config, dirExists, files, grad, i, count, init_val_loss,
                   batch_val_losses, avg_val_loss, lastLogged, history, run, testvars>>

\* line 66 (and 147 when the range is exhausted)
EpochHead ==
    /\ pc = "epoch_head"
    /\ IF epoch < epochs
       THEN /\ pc' = "fetch"
            /\ i' = 0 - 1
            /\ lastSubVal' = 0
            /\ UNCHANGED stopped
       ELSE /\ pc' = "done"
            /\ stopped' = "max_epochs_reached"
            /\ UNCHANGED <<i, lastSubVal>>
    /\ UNCHANGED <<config, dirExists, files, model, grad, epoch, count, init_val_loss,
                   batch_val_losses, avg_val_loss, lastLogged, endLosses, streak, saves, minSeen,
                   run, testvars>>

\* line 69: next batch of train_loader, or leave the inner loop (lines 109-116)
Fetch ==
    /\ pc = "fetch"
    /\ IF i + 1 < NumBatches(trainset)
       THEN /\ i' = i + 1
            /\ pc' = "forward"
            /\ UNCHANGED batch_val_losses
       ELSE /\ pc' = "epoch_val"
            /\ batch_val_losses' = <<>>
            /\ UNCHANGED i
    /\ UNCHANGED <<config, dirExists, files, model, grad, epoch, count, init_val_loss,
                   avg_val_loss, stopped, lastLogged, history, run, testvars>>

\* lines 70-72
Forward ==
    /\ pc = "forward"
    /\ pc' = "zero_grad"
    /\ UNCHANGED <<config, dirExists, files, model, grad, epoch, i, count, init_val_loss,
                   batch_val_losses, avg_val_loss, stopped, lastLogged, history, run, testvars>>

\* a step that goes on to the loss without clearing the gradients
ZeroGradMissing ==
    /\ pc = "zero_grad"
    /\ pc' = "backward"
    /\ UNCHANGED <<config, dirExists, files, model, grad, epoch, i, count, init_val_loss,
                   batch_val_losses, avg_val_loss, stopped, lastLogged, history, run, testvars>>

\* lines 73-77
ZeroGrad ==
    /\ pc = "zero_grad"
    /\ grad' = <<"zero">>
    /\ pc' = "backward"
    /\ UNCHANGED <<config, dirExists, files, model, epoch, i, count, init_val_loss,
                   batch_val_losses, avg_val_loss, stopped, lastLogged, history, run, testvars>>

\* line 80: loss.backward() adds this step's gradients to what the gradients hold
Backward ==
    /\ pc = "backward"
    /\ grad' = IF grad \in {<<"zero">>, <<"none">>} THEN <<"step", epoch, i>> ELSE <<"mixed">>
    /\ pc' = "opt_step"
    /\ UNCHANGED <<config, dirExists, files, model, epoch, i, count, init_val_loss,
                   batch_val_losses, avg_val_loss, stopped, lastLogged, history, run, testvars>>

\* line 81
OptStep ==
    /\ pc = "opt_step"
    /\ model' = model + 1
    /\ pc' = "log"
    /\ UNCHANGED <<config, dirExists, files, grad, epoch, i, count, init_val_loss,
                   batch_val_losses, avg_val_loss, stopped, lastLogged, history, run, testvars>>

\* lines 83-87
Log ==
    /\ pc = "log"
    /\ lastLogged' = i + epoch * Denominator(trainset)
    /\ IF IsCheckStep(i)
       THEN /\ pc' = "subval"
            /\ batch_val_losses' = <<>>
       ELSE /\ pc' = "fetch"
            /\ UNCHANGED batch_val_losses
    /\ UNCHANGED <<config, dirExists, files, model, grad, epoch, i, count, init_val_loss,
                   avg_val_loss, stopped, history, run, testvars>>

\* lines 88-94 (sub-epoch) and 117-123 (epoch end): one validation batch
ValBatch(at) ==
    /\ pc = at
    /\ Len(batch_val_losses) < NumBatches(valset)
    /\ \E l \in BatchLosses : batch_val_losses' = Append(batch_val_losses, l)
    /\ UNCHANGED <<pc, config, dirExists, files, model, grad, epoch, i, count, init_val_loss,
                   avg_val_loss, stopped, lastLogged, history, run, testvars>>

SubValBatch == ValBatch("subval")

EpochValBatch == ValBatch("epoch_val")

\* lines 95 and 124
AvgValLoss(losses) == FDiv(FSum(losses), Denominator(valset))

\* lines 95-97
SubValAvg ==
    /\ pc = "subval"
    /\ Len(batch_val_losses) = NumBatches(valset)
    /\ avg_val_loss' = AvgValLoss(batch_val_losses)
    /\ pc' = "subval_check"
    /\ UNCHANGED <<config, dirExists, files, model, grad, epoch, i, count, init_val_loss,
                   batch_val_losses, stopped, lastLogged, history, run, testvars>>

\* a sub-epoch check that records and saves every validation loss, improved or not
SubValCheckNoCompare ==
    /\ pc = "subval_check"
    /\ init_val_loss' = avg_val_loss
    /\ dirExists' = MakeDirs(dirExists)
    /\ files' = SaveFile(files, CkptName(SubEpochLabel(i), avg_val_loss), model)
    /\ saves' = saves \cup {SubEpochLabel(i)}
    /\ lastSubVal' = i + 1
    /\ minSeen' = FMin(minSeen, avg_val_loss)
    /\ pc' = "fetch"
    /\ UNCHANGED <<config, model, grad, epoch, i, count, batch_val_losses, avg_val_loss,
                   stopped, lastLogged, endLosses, streak, run, testvars>>

\* a sub-epoch check that also resets patience_count on a new best
SubValCheckResetsCount ==
    /\ pc = "subval_check"
    /\ IF FLess(avg_val_loss, init_val_loss)
       THEN /\ init_val_loss' = avg_val_loss
            /\ dirExists' = MakeDirs(dirExists)
            /\ files' = SaveFile(files, CkptName(SubEpochLabel(i), avg_val_loss), model)
            /\ saves' = saves \cup {SubEpochLabel(i)}
            /\ count' = 0
       ELSE UNCHANGED <<init_val_loss, dirExists, files, saves, count>>
    /\ lastSubVal' = i + 1
    /\ minSeen' = FMin(minSeen, avg_val_loss)
    /\ pc' = "fetch"
    /\ UNCHANGED <<config, model, grad, epoch, i, batch_val_losses, avg_val_loss,
                   stopped, lastLogged, endLosses, streak, run, testvars>>

\* lines 98-106
SubValCheck ==
    /\ pc = "subval_check"
    /\ IF FLess(avg_val_loss, init_val_loss)
       THEN /\ init_val_loss' = avg_val_loss
            /\ dirExists' = MakeDirs(dirExists)
            /\ files' = SaveFile(files, CkptName(SubEpochLabel(i), avg_val_loss), model)
            /\ saves' = saves \cup {SubEpochLabel(i)}
       ELSE UNCHANGED <<init_val_loss, dirExists, files, saves>>
    /\ lastSubVal' = i + 1
    /\ minSeen' = FMin(minSeen, avg_val_loss)
    /\ pc' = "fetch"
    /\ UNCHANGED <<config, model, grad, epoch, i, count, batch_val_losses, avg_val_loss,
                   stopped, lastLogged, endLosses, streak, run, testvars>>

\* lines 124-127
EpochValAvg ==
    /\ pc = "epoch_val"
    /\ Len(batch_val_losses) = NumBatches(valset)
    /\ avg_val_loss' = AvgValLoss(batch_val_losses)
    /\ endLosses' = Append(endLosses, avg_val_loss')
    /\ pc' = "epoch_save"
    /\ UNCHANGED <<config, dirExists, files, model, grad, epoch, i, count, init_val_loss,
                   batch_val_losses, stopped, lastLogged, streak, lastSubVal, saves, minSeen,
                   run, testvars>>

\* line 130: torch.save raises when the directory is missing
EpochSave ==
    /\ pc = "epoch_save"
    /\ IF dirExists
       THEN /\ files' = SaveFile(files, CkptName(EpochLabel(epoch), avg_val_loss), model)
            /\ saves' = saves \cup {EpochLabel(epoch)}
            /\ pc' = "epoch_check"
            /\ UNCHANGED stopped
       ELSE /\ pc' = "aborted"
            /\ stopped' = "SaveFailed"
            /\ UNCHANGED <<files, saves>>
    /\ UNCHANGED <<config, dirExists, model, grad, epoch, i, count, init_val_loss,
                   batch_val_losses, avg_val_loss, lastLogged, endLosses, streak,
                   lastSubVal, minSeen, run, testvars>>

\* lines 132-145, then the next iteration of line 66
EpochCheck ==
    /\ pc = "epoch_check"
    /\ streak' = IF FLess(avg_val_loss, init_val_loss) THEN 0 ELSE streak + 1
    /\ minSeen' = FMin(minSeen, avg_val_loss)
    /\ IF FLess(avg_val_loss, init_val_loss)
       THEN /\ init_val_loss' = avg_val_loss
            /\ dirExists' = MakeDirs(dirExists)
            /\ count' = 0
            /\ pc' = "epoch_head"
            /\ epoch' = epoch + 1
            /\ UNCHANGED stopped
       ELSE IF FGeq(avg_val_loss, init_val_loss)
       THEN /\ count' = count + 1
            /\ IF count' = early_stopping_patience
               THEN /\ pc' = "done"
                    /\ stopped' = "patience_exhausted"
                    /\ UNCHANGED epoch
               ELSE /\ pc' = "epoch_head"
                    /\ epoch' = epoch + 1
                    /\ UNCHANGED stopped
            /\ UNCHANGED <<init_val_loss, dirExists>>
       ELSE /\ pc' = "epoch_head"
            /\ epoch' = epoch + 1
            /\ UNCHANGED <<init_val_loss, dirExists, count, stopped>>
    /\ UNCHANGED <<config, files, model, grad, i, batch_val_losses, avg_val_loss,
                   lastLogged, endLosses, lastSubVal, saves, run, testvars>>

\* lines 185-215: the script is started again on the same checkpoint directory,
\* with the same options except the warm-start ones
Restart ==
    /\ pc \in {"done", "aborted"}
    /\ run < MaxRuns
    /\ run' = run + 1
    /\ pc' = "start"
    /\ warm_start' \in BOOLEAN
    /\ warm_start_epoch' \in 0..MaxEpochs
    /\ model' = 0
    /\ grad' = <<"none">>
    /\ epoch' = 0
    /\ i' = 0 - 1
    /\ count' = 0
    /\ init_val_loss' = Inf
    /\ batch_val_losses' = <<>>
    /\ avg_val_loss' = Inf
    /\ stopped' = "none"
    /\ lastLogged' = 0 - 1
    /\ endLosses' = <<>>
    /\ streak' = 0
    /\ lastSubVal' = 0
    /\ minSeen' = Inf
    /\ UNCHANGED <<epochs, early_stopping_patience, trainset, valset, dirExists, files, saves,
                   testvars>>

\* ---------------------------------------------------------------- test mode
\* Scores are natural numbers; a standard deviation is kept in tenths.

\* score vectors the model may output for a test sample
TestOutputs ==
    {[k \in 1..NumRanks |-> IF k \in SupportRanks THEN f[k] ELSE 0] :
        f \in [SupportRanks -> 0..MaxScore]}

RECURSIVE MeanLoop(_, _, _)
\* lines 175-176: for i, elem in enumerate(output, 1): predicted_mean += i * elem
MeanLoop(out, k, acc) ==
    IF k > Len(out) THEN acc ELSE MeanLoop(out, k + 1, acc + k * out[k])

RECURSIVE StdLoop(_, _, _, _)
\* lines 177-178: for j, elem in ...: predicted_std += elem * (j - predicted_mean) ** 2
StdLoop(out, k, mean, acc) ==
    IF k > Len(out) THEN acc
    ELSE StdLoop(out, k + 1, mean, acc + out[k] * (k - mean) * (k - mean))

RECURSIVE RootBetween(_, _, _)
\* the integer square root of x, known to be at least lo and less than hi
RootBetween(x, lo, hi) ==
    IF hi - lo <= 1 THEN lo
    ELSE LET mid == (lo + hi) \div 2
         IN  IF mid <= x \div mid THEN RootBetween(x, mid, hi) ELSE RootBetween(x, lo, mid)

\* line 179: x ** 0.5, in tenths, truncated
Sqrt(x) == RootBetween(100 * x, 0, 100 * x + 1)

\* the next sample is taken without resetting the two accumulators
TestFetchNoReset ==
    /\ pc = "test"
    /\ IF tpos < Len(testset)
       THEN /\ tpos' = tpos + 1
            /\ output' = testset[tpos + 1]
            /\ pc' = "test_mean"
       ELSE /\ pc' = "test_done"
            /\ UNCHANGED <<tpos, output>>
    /\ UNCHANGED <<predicted_mean, predicted_std>>
    /\ UNCHANGED <<config, dirExists, files, model, grad, epoch, i, count, init_val_loss,
                   batch_val_losses, avg_val_loss, stopped, lastLogged, history, run,
                   testset, mean_preds, std_preds>>

\* lines 170-174: next sample of test_loader, forward pass, accumulators set to 0.0
TestFetch ==
    /\ pc = "test"
    /\ IF tpos < Len(testset)
       THEN /\ tpos' = tpos + 1
            /\ output' = testset[tpos + 1]
            /\ predicted_mean' = 0
            /\ predicted_std' = 0
            /\ pc' = "test_mean"
       ELSE /\ pc' = "test_done"
            /\ UNCHANGED <<tpos, output, predicted_mean, predicted_std>>
    /\ UNCHANGED <<config, dirExists, files, model, grad, epoch, i, count, init_val_loss,
                   batch_val_losses, avg_val_loss, stopped, lastLogged, history, run,
                   testset, mean_preds, std_preds>>

\* lines 175-176
TestMean ==
    /\ pc = "test_mean"
    /\ predicted_mean' = MeanLoop(output, 1, predicted_mean)
    /\ pc' = "test_std"
    /\ UNCHANGED <<config, dirExists, files, model, grad, epoch, i, count, init_val_loss,
                   batch_val_losses, avg_val_loss, stopped, lastLogged, history, run,
                   testset, tpos, output, predicted_std, mean_preds, std_preds>>

\* lines 177-179
TestStd ==
    /\ pc = "test_std"
    /\ predicted_std' = Sqrt(StdLoop(output, 1, predicted_mean, predicted_std))
    /\ pc' = "test_append"
    /\ UNCHANGED <<config, dirExists, files, model, grad, epoch, i, count, init_val_loss,
                   batch_val_losses, avg_val_loss, stopped, lastLogged, history, run,
                   testset, tpos, output, predicted_mean, mean_preds, std_preds>>

\* lines 180-181
TestAppend ==
    /\ pc = "test_append"
    /\ mean_preds' = Append(mean_preds, predicted_mean)
    /\ std_preds' = Append(std_preds, predicted_std)
    /\ pc' = "test"
    /\ UNCHANGED <<config, dirExists, files, model, grad, epoch, i, count, init_val_loss,
                   batch_val_losses, avg_val_loss, stopped, lastLogged, history, run,
                   testset, tpos, output, predicted_mean, predicted_std>>

Next ==
    \/ LoadCheckpoint
    \/ EpochHead
    \/ Fetch
    \/ Forward
    \/ ZeroGrad
    \/ Backward
    \/ OptStep
    \/ Log
    \/ SubValBatch
    \/ SubValAvg
    \/ SubValCheck
    \/ EpochValBatch
    \/ EpochValAvg
    \/ EpochSave
    \/ EpochCheck

Spec == Init /\ [][Next]_vars

\* two runs of one epoch each on the same directory
InitRerun == Init /\ epochs = 1

NextRerun == Next \/ Restart

SpecRerun == InitRerun /\ [][NextRerun]_vars

\* lines 161-181: the script run with --test only, on 1..MaxSamples test samples
InitTest ==
    /\ pc = "test"
    /\ epochs = 1
    /\ early_stopping_patience = 0
    /\ warm_start = FALSE
    /\ warm_start_epoch = 0
    /\ trainset \in TrainSets
    /\ valset \in ValSets
    /\ dirExists = FALSE
    /\ files = NoFiles
    /\ model = 0
    /\ grad = <<"none">>
    /\ epoch = 0
    /\ i = 0 - 1
    /\ count = 0
    /\ init_val_loss = Inf
    /\ batch_val_losses = <<>>
    /\ avg_val_loss = Inf
    /\ stopped = "none"
    /\ lastLogged = 0 - 1
    /\ endLosses = <<>>
    /\ streak = 0
    /\ lastSubVal = 0
    /\ saves = {}
    /\ minSeen = Inf
    /\ run = 1
    /\ \E n \in 1..MaxSamples : testset \in [1..n -> TestOutputs]
    /\ tpos = 0
    /\ output = <<>>
    /\ predicted_mean = 0
    /\ predicted_std = 0
    /\ mean_preds = <<>>
    /\ std_preds = <<>>

NextTest ==
    \/ TestFetch
    \/ TestMean
    \/ TestStd
    \/ TestAppend

SpecTest == InitTest /\ [][NextTest]_vars

TypeOK == pc \in {"start", "epoch_head", "fetch", "forward", "zero_grad", "backward",
                  "opt_step", "log", "subval", "subval_check", "epoch_val",
                  "epoch_save", "epoch_check", "done", "aborted",
                  "test", "test_mean", "test_std", "test_append", "test_done"}

\* ---------------------------------------------------------------- claims

\* C1: the loop performs at most E epochs and stops early exactly when P
\* consecutive epoch-end checks showed no improvement over best_val_loss; losses
\* 0.5 then 0.6 with patience 1 stop the run after the second epoch with reason
\* patience_exhausted.
C1_StopsExactlyOnPatience ==
    /\ Len(endLosses) <= epochs
    /\ early_stopping_patience >= 1 =>
          ((stopped = "patience_exhausted") <=> (streak >= early_stopping_patience))
    /\ (/\ early_stopping_patience = 1
        /\ endLosses = <<5000000, 6000000>>
        /\ pc \notin {"epoch_save", "epoch_check"})
          => (pc = "done" /\ stopped = "patience_exhausted")

\* C2: whenever a new best validation loss is recorded, by a sub-epoch or by an
\* epoch-end validation, patience_count is reset to 0.
C2_ResetOnEveryNewBest ==
    [][init_val_loss' # init_val_loss => count' = 0]_vars

\* C3: no checkpoint save is attempted while the checkpoint directory is missing:
\* the epoch-end save at line 130 finds the directory in place.
C3_NoSaveIntoMissingDir ==
    pc = "epoch_save" => dirExists

\* C4: every epoch that has been run has its checkpoint, labelled with the true
\* epoch number and carrying the epoch-end loss, on disk.
C4_CheckpointPerEpoch ==
    \A k \in 1..Len(endLosses) :
        (k < Len(endLosses) \/ pc # "epoch_save")
            => <<"epoch", warm_start_epoch + k, FormatLoss(endLosses[k])>> \in DOMAIN files

\* avg_val_loss is a number strictly below the best loss recorded so far
StrictlyBelowBest ==
    /\ avg_val_loss >= 0
    /\ init_val_loss = Inf \/ (init_val_loss >= 0 /\ avg_val_loss < init_val_loss)

InSubVal == pc \in {"subval", "subval_check"}

\* C5: best_val_loss starts at +infinity and never increases: every step leaves
\* it unchanged or replaces it by a strictly smaller finite loss.
C5_BestNonIncreasing ==
    /\ init_val_loss = Inf
    /\ [][\/ init_val_loss' = init_val_loss
          \/ /\ init_val_loss' >= 0
             /\ init_val_loss = Inf \/ init_val_loss' < init_val_loss]_vars

\* the best loss lies strictly below an earlier epoch-end loss of the same run
C5_Witness ==
    /\ pc = "epoch_head"
    /\ Len(endLosses) >= 2
    /\ endLosses[1] >= 0
    /\ init_val_loss >= 0
    /\ init_val_loss < endLosses[1]
    /\ endLosses[2] > init_val_loss

\* C6: a warm start by epoch number e finds the checkpoint whenever the training
\* loop has saved a checkpoint labelled e into the directory.
C6_WarmStartFindsSaved ==
    ~(stopped = "CheckpointNotFound" /\ warm_start_epoch \in saves)

\* C7: with warm_start set and epoch-k.pth absent the run aborts with
\* CheckpointNotFound, and at that point no training step, validation pass or
\* checkpoint save has happened.
C7_AbortBeforeTraining ==
    /\ (warm_start /\ <<"epoch", warm_start_epoch>> \notin DOMAIN files /\ pc # "start")
          => (pc = "aborted" /\ stopped = "CheckpointNotFound")
    /\ stopped = "CheckpointNotFound"
          => /\ pc = "aborted"
             /\ model = 0
             /\ grad = <<"none">>
             /\ lastLogged < 0
             /\ batch_val_losses = <<>>
             /\ endLosses = <<>>
             /\ saves = {}
             /\ init_val_loss = Inf

\* the directory is there, the requested checkpoint is not, and the run aborted
C7_Witness ==
    /\ stopped = "CheckpointNotFound"
    /\ dirExists
    /\ warm_start_epoch > 1

\* C8: a sub-epoch validation runs after exactly the steps whose 1-indexed
\* position is a multiple of 4, and while it runs no training step happens:
\* the model, the gradients and the step position stay as they are.
C8_SubValEveryFourthStep ==
    /\ [](InSubVal => (i + 1) % 4 = 0)
    /\ [](pc = "fetch" => lastSubVal = 4 * ((i + 1) \div 4))
    /\ [][InSubVal => /\ model' = model
                      /\ grad' = grad
                      /\ i' = i
                      /\ epoch' = epoch
                      /\ lastLogged' = lastLogged
                      /\ pc' \in {"subval", "subval_check", "fetch"}]_vars

\* the second validation of the second epoch has computed its loss
C8_Witness ==
    /\ pc = "subval_check"
    /\ i = 7
    /\ epoch = 1
    /\ lastSubVal = 4

\* C9: every validation whose loss is strictly below best_val_loss is followed
\* by a checkpoint save carrying that loss, and best_val_loss is set to it.
C9_SaveOnEveryImprovement ==
    [][/\ (pc = "subval_check" /\ StrictlyBelowBest)
            => /\ <<"epoch", (i + 1) \div 6, FormatLoss(avg_val_loss)>> \in DOMAIN files'
               /\ init_val_loss' = avg_val_loss
       /\ (pc = "epoch_save" /\ StrictlyBelowBest)
            => <<"epoch", epoch + 1, FormatLoss(avg_val_loss)>> \in DOMAIN files'
       /\ (pc = "epoch_check" /\ StrictlyBelowBest)
            => init_val_loss' = avg_val_loss]_vars

\* C10: a sub-epoch checkpoint is saved under the label (i + 1) // 6, whatever
\* the epoch, and it holds the model of that moment.
C10_SubEpochLabelFromStep ==
    [][(pc = "subval_check" /\ StrictlyBelowBest)
         => /\ <<"epoch", (i + 1) \div 6, FormatLoss(avg_val_loss)>> \in DOMAIN files'
            /\ files'[<<"epoch", (i + 1) \div 6, FormatLoss(avg_val_loss)>>] = model
            /\ saves' = saves \cup {(i + 1) \div 6}]_vars

\* step 8 of the third epoch has just saved its checkpoint under label 1
C10_Witness ==
    /\ pc = "fetch"
    /\ epoch = 2
    /\ lastSubVal = 8
    /\ init_val_loss = avg_val_loss
    /\ <<"epoch", 1, FormatLoss(avg_val_loss)>> \in DOMAIN files
    /\ files[<<"epoch", 1, FormatLoss(avg_val_loss)>>] = model

\* C11: both validations evaluate ceil(M / B) batches and divide the summed
\* batch losses by floor(M / B) + 1, which is the number of batches when B does
\* not divide M and one more when it does (100 / 30: 4 and 4; 90 / 30: 3 and 4).
C11_ValidationDenominator ==
    /\ pc \in {"subval_check", "epoch_save"} =>
          /\ Len(batch_val_losses) = (valset[1] + valset[2] - 1) \div valset[2]
          /\ avg_val_loss =
                IF \E k \in 1..Len(batch_val_losses) : batch_val_losses[k] = NaN
                THEN NaN
                ELSE FSum(batch_val_losses) \div (valset[1] \div valset[2] + 1)
          /\ valset[1] % valset[2] # 0 =>
                valset[1] \div valset[2] + 1 = Len(batch_val_losses)
          /\ valset[1] % valset[2] = 0 =>
                valset[1] \div valset[2] + 1 = Len(batch_val_losses) + 1
    /\ Denominator(<<100, 30>>) = 4 /\ NumBatches(<<100, 30>>) = 4
    /\ Denominator(<<90, 30>>) = 4 /\ NumBatches(<<90, 30>>) = 3

\* the batch size divides the validation set: one batch of loss 0.5 gives 0.25,
\* at the end of an epoch that also had its two sub-epoch validations
C11_Witness ==
    /\ pc = "epoch_save"
    /\ lastSubVal = 8
    /\ valset = <<2, 2>>
    /\ batch_val_losses = <<5000000>>
    /\ avg_val_loss = 2500000

\* optimizer steps completed before the current training step of this run
StepsBefore ==
    (epoch - warm_start_epoch) * ((trainset[1] + trainset[2] - 1) \div trainset[2]) + i

\* the parameters the run started from: the loaded checkpoint or the fresh model
StartModel == IF warm_start THEN files[<<"epoch", warm_start_epoch>>] ELSE 0

\* C12: in every training step the gradients are cleared before the backward
\* pass, the optimizer step follows the backward pass and finds exactly the
\* gradients of its own step, and each step makes exactly one optimizer step.
C12_StepOrder ==
    /\ pc \in {"forward", "zero_grad"} =>
          (grad # <<"zero">> /\ grad # <<"step", epoch, i>> /\ grad # <<"mixed">>)
    /\ pc = "backward" => grad = <<"zero">>
    /\ pc \in {"opt_step", "log"} => grad = <<"step", epoch, i>>
    /\ pc \in {"forward", "zero_grad", "backward", "opt_step"} =>
          model = StartModel + StepsBefore
    /\ pc = "log" => model = StartModel + StepsBefore + 1

\* the optimizer is about to step in the second epoch, after a sub-epoch validation
C12_Witness ==
    /\ pc = "opt_step"
    /\ epoch = 1
    /\ i = 4
    /\ lastSubVal = 4
    /\ grad = <<"step", 1, 4>>

\* C13: a run that got past the warm start ends in one of two terminal states:
\* patience_exhausted, with patience_count at the configured patience, or
\* max_epochs_reached, with the last configured epoch completed.
C13_TwoTerminalStates ==
    (pc \in {"done", "aborted"} /\ stopped # "CheckpointNotFound") =>
        \/ stopped = "patience_exhausted" /\ count = early_stopping_patience
        \/ stopped = "max_epochs_reached" /\ epoch >= epochs

\* the example vector of the claim: all the weight on rank 1
OneOnRankOne == [k \in 1..NumRanks |-> IF k = 1 THEN 1 ELSE 0]

\* sum over the ranks 1..10 of rank * score
WeightedMean(v) ==
    1 * v[1] + 2 * v[2] + 3 * v[3] + 4 * v[4] + 5 * v[5]
      + 6 * v[6] + 7 * v[7] + 8 * v[8] + 9 * v[9] + 10 * v[10]

RECURSIVE SpreadUpTo(_, _, _)
\* sum over the ranks 1..k of score * (rank - m)^2
SpreadUpTo(v, m, k) ==
    IF k = 0 THEN 0 ELSE SpreadUpTo(v, m, k - 1) + v[k] * (k - m) * (k - m)

\* C14: each sample's prediction is mean = sum of i * score[i] and
\* std = sqrt(sum of score[i] * (i - mean)^2) of that sample's own score vector,
\* whatever samples came before; [1,0,0,0,0,0,0,0,0,0] gives mean 1 and std 0.
C14_InferenceReduction ==
    /\ Len(mean_preds) = Len(std_preds)
    /\ \A k \in 1..Len(mean_preds) :
          /\ mean_preds[k] = WeightedMean(testset[k])
          /\ std_preds[k] >= 0
          /\ std_preds[k] * std_preds[k]
                <= 100 * SpreadUpTo(testset[k], WeightedMean(testset[k]), 10)
          /\ (std_preds[k] + 1) * (std_preds[k] + 1)
                > 100 * SpreadUpTo(testset[k], WeightedMean(testset[k]), 10)
          /\ testset[k] = OneOnRankOne => (mean_preds[k] = 1 /\ std_preds[k] = 0)

\* the example vector was reduced as the second sample, after a sample with a
\* non-zero mean and a non-zero deviation
C14_Witness ==
    /\ pc = "test_done"
    /\ Len(mean_preds) = 2
    /\ testset[2] = OneOnRankOne
    /\ mean_preds[1] > 1
    /\ std_preds[1] > 0
    /\ mean_preds[2] = 1
    /\ std_preds[2] = 0

InValidationOrSave ==
    pc \in {"subval", "subval_check", "epoch_val", "epoch_save", "epoch_check"}

\* C15: inside the loop the model parameters change only in the optimizer step;
\* validations and checkpoint saves leave them as they are, and a sub-epoch
\* validation also leaves patience_count and the epoch / step position unchanged.
C15_OnlyOptimizerChangesModel ==
    [][/\ InValidationOrSave => (model' = model /\ grad' = grad)
       /\ (model' # model /\ pc # "start") => (pc = "opt_step" /\ model' = model + 1)
       /\ InSubVal => /\ count' = count
                      /\ epoch' = epoch
                      /\ i' = i
                      /\ stopped' = stopped
                      /\ lastLogged' = lastLogged
                      /\ endLosses' = endLosses]_vars

\* a sub-epoch validation of the second epoch has recorded a new best and saved
\* it while patience_count stayed at 1
C15_Witness ==
    /\ pc = "fetch"
    /\ epoch = 1
    /\ lastSubVal = 4
    /\ count = 1
    /\ init_val_loss = avg_val_loss
    /\ <<"epoch", 0, FormatLoss(avg_val_loss)>> \in DOMAIN files
    /\ files[<<"epoch", 0, FormatLoss(avg_val_loss)>>] = model
    /\ FormatLoss(endLosses[1]) # FormatLoss(avg_val_loss)

\* the epoch-end loss is a number strictly below every validation loss seen before it
BelowAllSeen ==
    /\ avg_val_loss >= 0
    /\ minSeen = Inf \/ avg_val_loss < minSeen

\* C16: the loss the epoch-end check compares against is the least validation
\* loss seen so far, sub-epoch validations included; the epoch improves, and
\* resets patience_count, exactly when its loss is strictly below it, and an
\* equal loss is counted as an epoch without improvement.
C16_StrictComparisonWithMinimum ==
    /\ [](init_val_loss = minSeen)
    /\ [][pc = "epoch_check" =>
            /\ BelowAllSeen => (count' = 0 /\ init_val_loss' = avg_val_loss)
            /\ ~BelowAllSeen => (init_val_loss' = init_val_loss /\ count' >= count)
            /\ (~BelowAllSeen /\ avg_val_loss # NaN) => count' = count + 1]_vars

\* the first epoch ended with exactly the loss its first sub-epoch validation
\* had recorded as the best: counted as no improvement
C16_Witness ==
    /\ pc = "epoch_head"
    /\ epoch = 1
    /\ count = 1
    /\ lastSubVal = 8
    /\ endLosses = <<init_val_loss>>
    /\ <<"epoch", 0, FormatLoss(init_val_loss)>> \in DOMAIN files

\* max(0, E - warm_start_epoch)
EpochsToRun == IF epochs > warm_start_epoch THEN epochs - warm_start_epoch ELSE 0

\* C17: with or without the warm_start flag the epochs processed are those of
\* index warm_start_epoch, warm_start_epoch + 1, ... below E, in this order, at
\* most max(0, E - warm_start_epoch) of them and all of them when the run ends
\* with max_epochs_reached; when warm_start_epoch >= E nothing is trained,
\* validated or saved and a run that got past the warm start finishes normally.
C17_EpochRange ==
    /\ Len(endLosses) <= EpochsToRun
    /\ pc \in {"epoch_head", "fetch", "forward", "zero_grad", "backward", "opt_step",
               "log", "subval", "subval_check", "epoch_val"}
          => epoch = warm_start_epoch + Len(endLosses)
    /\ pc \in {"epoch_save", "epoch_check"}
          => epoch = warm_start_epoch + Len(endLosses) - 1
    /\ pc \notin {"start", "epoch_head", "done", "aborted"} => epoch < epochs
    /\ stopped = "max_epochs_reached" => Len(endLosses) = EpochsToRun
    /\ warm_start_epoch >= epochs =>
          /\ pc \in {"start", "epoch_head", "done", "aborted"}
          /\ model <= 0
          /\ grad = <<"none">>
          /\ lastLogged < 0
          /\ batch_val_losses = <<>>
          /\ endLosses = <<>>
          /\ minSeen = Inf
          /\ saves = {}
          /\ pc = "done" => stopped = "max_epochs_reached"
          /\ pc = "aborted" => (warm_start /\ stopped = "CheckpointNotFound")

\* without the warm_start flag, warm_start_epoch = 1 of 3 epochs: two epochs ran
C17_Witness ==
    /\ pc = "done"
    /\ ~warm_start
    /\ warm_start_epoch = 1
    /\ epochs = 3
    /\ Len(endLosses) = 2
    /\ stopped = "max_epochs_reached"
    /\ {2, 3} \subseteq saves
    /\ 1 \notin saves

\* C18: the step index written with each batch training loss,
\* i + epoch * (len(trainset) // train_batch_size + 1), is greater than every
\* index written before it in the run.
C18_StepIndexIncreases ==
    /\ pc = "log" =>
          i + epoch * (trainset[1] \div trainset[2] + 1) > lastLogged
    /\ (pc \in {"subval", "subval_check"} \/ (pc = "fetch" /\ i >= 0)) =>
          lastLogged = i + epoch * (trainset[1] \div trainset[2] + 1)

\* the first step of the third epoch is about to be logged, the batch size not
\* dividing the training set
C18_Witness ==
    /\ pc = "log"
    /\ epoch = 2
    /\ i = 0
    /\ trainset = <<3, 2>>
    /\ lastLogged = 3
====
